---- MODULE Spec2Model ----
(***************************************************************************)
(* llama.ttf: the HarfBuzz-WASM shaper (llamattf/src/lib.rs, `shape`) and  *)
(* the generation engine it drives (t5-quantized/src/lib.rs, `decode`).    *)
(*                                                                         *)
(* Text is a sequence of character codes.  Option<T> is a sequence of      *)
(* length 0 (None) or 1 (Some).  HashMap<String,String> is a function      *)
(* whose domain is the set of keys.                                        *)
(***************************************************************************)
EXTENDS Integers, Sequences, FiniteSets, TLC

\* Longest buffer the host hands to shape.
MaxLen == 4
\* Number of shape calls the host makes in one process.
MaxCalls == 2

-----------------------------------------------------------------------------
(* Text helpers                                                            *)

\* let punctuation = vec!['.', '!', '?'];
punctuation == {46, 33, 63}

Strings(A, n) == UNION {[1..k -> A] : k \in 0..n}

\* Host buffers: runs over a letter and '.', and runs over a digit and '.'.
\* The letter is U+0161, whose low byte is 0x61 ('a'); the digit is '1'.
HostBuffers == Strings({353, 46}, MaxLen) \cup Strings({49, 46}, MaxLen)

\* Lengths of the texts the generation engine hands back: 2 is as long as
\* the shortest translated unit and shorter than the others, MaxLen + 1 is
\* longer than any buffer.
GenerationLens == {2, MaxLen + 1}
Generations == {[i \in 1..k |-> 120] : k \in GenerationLens}

\* g.codepoint as u8
as_u8(cp) == cp % 256

\* String::from_utf8_lossy, for bytes that are ASCII or can never be part
\* of a well-formed sequence (each of those is replaced by U+FFFD on its
\* own).  Lead bytes 0xC2..0xF4 are outside the buffers drawn here.
lossy_char(b) == IF b < 128 THEN b ELSE 65533
from_utf8_lossy(bytes) == [i \in 1..Len(bytes) |-> lossy_char(bytes[i])]

\* str_buf of a host buffer (lines 59-60).
StrBuf(cps) == from_utf8_lossy([i \in 1..Len(cps) |-> as_u8(cps[i])])

IsDigit(c) == c \in 48..57
IsSign(c) == c \in {43, 45}
AllDigits(s) == \A i \in 1..Len(s) : IsDigit(s[i])
StripSign(s) == IF Len(s) > 0 /\ IsSign(s[1]) THEN Tail(s) ELSE s

RECURSIVE StripZeros(_)
StripZeros(s) == IF Len(s) > 1 /\ s[1] = 48 THEN StripZeros(Tail(s)) ELSE s

RECURSIVE DigitsLeq(_, _)
\* a <= b for digit strings of one length
DigitsLeq(a, b) ==
    IF a = <<>> THEN TRUE
    ELSE IF a[1] # b[1] THEN a[1] < b[1]
    ELSE DigitsLeq(Tail(a), Tail(b))

\* Whether a digit string is at most isize::MAX = 2147483647 (32 bits on the
\* wasm32 target), or at most 2147483648 below a minus sign.
FitsIsize(digits, neg) ==
    LET d == StripZeros(digits)
        lim == IF neg THEN <<50, 49, 52, 55, 52, 56, 51, 54, 52, 56>>
                      ELSE <<50, 49, 52, 55, 52, 56, 51, 54, 52, 55>>
    IN  Len(d) < 10 \/ (Len(d) = 10 /\ DigitsLeq(d, lim))

\* s.parse::<isize>() is Ok: an optional sign, one or more digits, and a
\* value that fits isize.
ParsesInt(s) ==
    LET body == StripSign(s)
    IN  /\ Len(body) > 0
        /\ AllDigits(body)
        /\ FitsIsize(body, s[1] = 45)

Lower(c) == IF c \in 65..90 THEN c + 32 ELSE c
LowerSeq(s) == [i \in 1..Len(s) |-> Lower(s[i])]

\* Digit+ | Digit+ '.' Digit* | Digit* '.' Digit+
IsMantissa(m) ==
    \/ Len(m) > 0 /\ AllDigits(m)
    \/ \E k \in 1..Len(m) :
          /\ m[k] = 46
          /\ Len(m) > 1
          /\ AllDigits(SubSeq(m, 1, k - 1))
          /\ AllDigits(SubSeq(m, k + 1, Len(m)))

IsExponent(e) == Len(StripSign(e)) > 0 /\ AllDigits(StripSign(e))

\* s.parse::<f64>() is Ok: Sign? ('inf' | 'infinity' | 'nan' | Number Exp?)
ParsesFloat(s) ==
    LET body == StripSign(s)
    IN  \/ LowerSeq(body) \in { <<105, 110, 102>>,
                                <<105, 110, 102, 105, 110, 105, 116, 121>>,
                                <<110, 97, 110>> }
        \/ IsMantissa(body)
        \/ \E k \in 1..Len(body) :
              /\ body[k] \in {101, 69}
              /\ IsMantissa(SubSeq(body, 1, k - 1))
              /\ IsExponent(SubSeq(body, k + 1, Len(body)))

is_number(s) == ParsesInt(s) \/ ParsesFloat(s)

RECURSIVE SplitFromDroppingMarks(_, _, _)
\* Variant of SplitFrom: the punctuation marks are left out of the units.
SplitFromDroppingMarks(s, i, cur) ==
    IF i > Len(s) THEN (IF cur = <<>> THEN <<>> ELSE <<cur>>)
    ELSE IF s[i] \in punctuation
         THEN (IF cur = <<>> THEN <<>> ELSE <<cur>>)
              \o SplitFromDroppingMarks(s, i + 1, <<>>)
         ELSE SplitFromDroppingMarks(s, i + 1, Append(cur, s[i]))

RECURSIVE SplitFrom(_, _, _)
SplitFrom(s, i, cur) ==
    IF i > Len(s) THEN (IF cur = <<>> THEN <<>> ELSE <<cur>>)
    ELSE IF s[i] \in punctuation
         THEN <<Append(cur, s[i])>> \o SplitFrom(s, i + 1, <<>>)
         ELSE SplitFrom(s, i + 1, Append(cur, s[i]))

\* str_buf.split_inclusive(|c| punctuation.contains(&c)): every unit ends
\* with its punctuation mark, a trailing remainder is the last unit, and no
\* unit is empty.
split_inclusive(s) == SplitFrom(s, 1, <<>>)

-----------------------------------------------------------------------------
(* The shaper: llamattf/src/lib.rs                                         *)

\* The host is single-threaded and a call runs to completion before the next
\* one starts, so the accesses to the two `static mut` items never overlap.
\* In the shaper's specification the engine appears through what
\* model.decode hands back (Ok with a text, Err, or a panic); its own steps
\* are the second half of this module.

VARIABLES
    calls,            \* shape calls the host has made
    pc,               \* position of the current shape call
    input,            \* codepoints of the buffer the host supplied
    buffer,           \* buffer.glyphs
    shaped,           \* buffer.glyphs as the branch left it, before the final pass
    ret,              \* value returned by shape (-1: none yet)
    MODEL,            \* static mut MODEL: Option<ModelConditionalGeneration>
    GENERATE_CACHE,   \* static mut GENERATE_CACHE: Option<HashMap<String, String>>
    sentences,        \* the units the iterator has not yielded yet
    glyphs,           \* let mut glyphs
    cluster_idx,      \* let mut cluster_idx
    log,              \* what the steps of the current call did: [op, unit, out]
    inits,            \* init_model invocations so far
    generated         \* per sentence, the texts model.decode returned Ok for it

shapeVars == <<calls, pc, input, buffer, shaped, ret, MODEL, GENERATE_CACHE,
               sentences, glyphs, cluster_idx, log, inits, generated>>

VARIABLES
    d_calls,            \* decode calls made so far
    d_pc,               \* position inside decode
    params,             \* input: ConditionalGenerationParams
    kv_cache,           \* the decoder tokens the model's key/value cache holds
    output_token_ids,   \* let mut output_token_ids
    max_length,         \* let max_length
    index,              \* for index in 0..
    decoder_token_ids,  \* let decoder_token_ids
    logits,             \* let logits: Result<Tensor>
    next_token_id,      \* let next_token_id
    decoded,            \* let mut decoded
    d_result,           \* what decode returned: [ok, generation, err]
    iterations,         \* times the loop head (line 99) was evaluated in this call
    failure,            \* the step of this call that failed, "none" if none did
    stale_kv            \* whether the model still held an earlier call's keys/values at entry

decodeVars == <<d_calls, d_pc, params, kv_cache, output_token_ids, max_length,
                index, decoder_token_ids, logits, next_token_id, decoded,
                d_result, iterations, failure, stale_kv>>

str_buf == StrBuf(input)
buf_len == Len(str_buf)

Glyph(cp, cl) == [codepoint |-> cp, cluster |-> cl, x_advance |-> 0]

\* The glyphs the host supplies: one per codepoint, clusters in order.
HostGlyphs(cps) == [i \in 1..Len(cps) |-> Glyph(cps[i], i - 1)]

Ev(op, unit, out) == [op |-> op, unit |-> unit, out |-> out]

\* Variant of NumericGlyphs: clusters counted from one.
NumericGlyphsOneBased(s) == [i \in 1..Len(s) |-> Glyph(s[i], i)]

\* Lines 67-81: one glyph per character of str_buf, cluster = its index.
NumericGlyphs(s) == [i \in 1..Len(s) |-> Glyph(s[i], i - 1)]

\* Variant of NeedsInit: init_model on every call.
AlwaysInit(m) == TRUE

\* MODEL.is_none() (line 85)
NeedsInit(m) == m = <<>>

\* Variant of contains_key: the cache is never consulted.
NeverCached(cache, k) == FALSE

\* cache.contains_key(sentence) (line 129)
contains_key(cache, k) == k \in DOMAIN cache

\* cache.get(sentence).unwrap().to_string() (line 131)
cache_get(cache, k) == cache[k]

\* Variant of cache_insert: the table keeps the newest entry only.
InsertEvicting(table, k, v) == [x \in {k} |-> v]

\* cache.insert(k, v) (line 139)
cache_insert(cache, k, v) ==
    [x \in DOMAIN cache \cup {k} |-> IF x = k THEN v ELSE cache[x]]

EmptyMap == [x \in {} |-> <<>>]

\* What model.decode hands back to shape: Ok(generation) or Err(message).
DecodeOk(t) == [ok |-> TRUE, generation |-> t]
DecodeErr == [ok |-> FALSE, generation |-> <<>>]

\* Variant of CacheAfter: the fallback text is stored on Err.
CacheAfterStoringFallback(cache, sentence, output) ==
    cache_insert(cache, sentence,
                 IF output.ok THEN output.generation ELSE sentence)

\* The cache after the match on `output` (lines 136-146).
CacheAfter(cache, sentence, output) ==
    IF output.ok THEN cache_insert(cache, sentence, output.generation)
    ELSE cache

\* Variant of MatchOutput: nothing is emitted on Err.
MatchOutputDroppingErr(sentence, output) ==
    IF output.ok THEN output.generation ELSE <<>>

\* The value of the match on `output` (lines 136-146).
MatchOutput(sentence, output) ==
    IF output.ok THEN output.generation ELSE sentence

\* Variant of ShouldTranslate: every unit is sent to translation.
TranslateAlways(unit, behind) == TRUE

\* !sentences.peek().is_none() || punctuation.contains(last char) (line 128)
ShouldTranslate(sentence, rest) ==
    rest # <<>> \/ sentence[Len(sentence)] \in punctuation

\* Variant of IsLonePunct: no unit is taken for a lone punctuation mark.
NeverLonePunct(unit) == FALSE

\* Line 115: a unit of one character that is a punctuation mark.
IsLonePunct(sentence) == Len(sentence) = 1 /\ sentence[1] \in punctuation

RECURSIVE ExtendGlyphs(_, _, _, _)
\* glyphs.extend(output_str.chars()...) (lines 151-164): the next index
\* while it is below buf_len, then buf_len - 1.
ExtendGlyphs(gs, text, idx, n) ==
    IF text = <<>> THEN [glyphs |-> gs, cluster_idx |-> idx]
    ELSE IF idx < n
         THEN ExtendGlyphs(Append(gs, Glyph(Head(text), idx)), Tail(text), idx + 1, n)
         ELSE ExtendGlyphs(Append(gs, Glyph(Head(text), n - 1)), Tail(text), idx, n)

\* font.get_glyph(codepoint, 0): the font's character map.
get_glyph(cp) == 1 + (cp % 200)

\* font.get_glyph_h_advance(glyph)
get_glyph_h_advance(gid) == 400 + gid

\* Variant of ResolveGlyph: the advance is looked up for the character.
ResolveGlyphAdvanceOfChar(item) ==
    [item EXCEPT !.codepoint = get_glyph(item.codepoint),
                 !.x_advance = get_glyph_h_advance(item.codepoint)]

\* One turn of the final loop (lines 169-174).
ResolveGlyph(item) ==
    LET gid == get_glyph(item.codepoint)
    IN  [item EXCEPT !.codepoint = gid, !.x_advance = get_glyph_h_advance(gid)]

FinalPassOf(gs) == [i \in 1..Len(gs) |-> ResolveGlyph(gs[i])]

\* The trailing 1 (line 176)
SuccessCode == 1

\* Variant of LoadFailureCode: a failed load reports success.
LoadFailureReportsSuccess == SuccessCode

\* return 0 (line 91)
LoadFailureCode == 0

ShapeInit ==
    /\ calls = 0
    /\ pc = "idle"
    /\ input = <<>>
    /\ buffer = <<>>
    /\ shaped = <<>>
    /\ ret = -1
    /\ MODEL = <<>>
    /\ GENERATE_CACHE = <<>>
    /\ sentences = <<>>
    /\ glyphs = <<>>
    /\ cluster_idx = 0
    /\ log = <<>>
    /\ inits = 0
    /\ generated = EmptyMap

\* Lines 55-63: the host calls shape with a buffer.
ShapeEnter(cps) ==
    /\ pc \in {"idle", "done"}
    /\ calls < MaxCalls
    /\ calls' = calls + 1
    /\ pc' = "entered"
    /\ input' = cps
    /\ buffer' = HostGlyphs(cps)
    /\ shaped' = HostGlyphs(cps)
    /\ ret' = -1
    /\ log' = <<Ev("enter", <<>>, <<>>)>>
    /\ UNCHANGED <<MODEL, GENERATE_CACHE, sentences, glyphs, cluster_idx,
                   inits, generated>>
    /\ UNCHANGED decodeVars

\* Lines 66-81: the numeric fast path.
NumericFastPath ==
    /\ pc = "entered"
    /\ is_number(str_buf)
    /\ buffer' = NumericGlyphs(str_buf)
    /\ shaped' = buffer'
    /\ pc' = "resolve"
    /\ log' = Append(log, Ev("numeric", <<>>, <<>>))
    /\ UNCHANGED <<calls, input, ret, MODEL, GENERATE_CACHE, sentences, glyphs,
                   cluster_idx, inits, generated>>
    /\ UNCHANGED decodeVars

\* Lines 85-93, init_model() is Err: return 0 at once.
InitModelFails ==
    /\ pc = "entered"
    /\ ~is_number(str_buf)
    /\ NeedsInit(MODEL)
    /\ inits' = inits + 1
    /\ ret' = LoadFailureCode
    /\ pc' = "done"
    /\ log' = Append(log, Ev("init_err", <<>>, <<>>))
    /\ UNCHANGED <<calls, input, buffer, shaped, MODEL, GENERATE_CACHE, sentences,
                   glyphs, cluster_idx, generated>>
    /\ UNCHANGED decodeVars

\* Lines 84-109 when the model is (or becomes) available: load it if it is
\* absent, create the cache if it is absent, split the text.
BeginTranslation ==
    /\ pc = "entered"
    /\ ~is_number(str_buf)
    /\ IF NeedsInit(MODEL)
       THEN /\ inits' = inits + 1
            /\ MODEL' = <<[session |-> inits + 1]>>
            /\ log' = Append(log, Ev("init_ok", <<>>, <<>>))
       ELSE /\ UNCHANGED <<inits, MODEL>>
            /\ log' = Append(log, Ev("model_ready", <<>>, <<>>))
    /\ GENERATE_CACHE' = IF GENERATE_CACHE = <<>> THEN <<EmptyMap>> ELSE GENERATE_CACHE
    /\ sentences' = split_inclusive(str_buf)
    /\ glyphs' = <<>>
    /\ cluster_idx' = 0
    /\ pc' = "loop"
    /\ UNCHANGED <<calls, input, buffer, shaped, ret, generated>>
    /\ UNCHANGED decodeVars

\* The unit `sentences.next()` yields, and what is left behind it.
sentence == Head(sentences)
rest == Tail(sentences)
cache == GENERATE_CACHE[1]

\* The loop body from line 128 on, for a unit whose text became output_str.
EmitUnit(output_str) ==
    LET r == ExtendGlyphs(glyphs, output_str, cluster_idx, buf_len)
    IN  /\ glyphs' = r.glyphs
        /\ cluster_idx' = r.cluster_idx
        /\ sentences' = rest
        /\ pc' = "loop"

\* Lines 115-127: a lone punctuation mark is pushed as it is.
UnitPunct ==
    /\ pc = "loop"
    /\ sentences # <<>>
    /\ IsLonePunct(sentence)
    /\ glyphs' = Append(glyphs, Glyph(sentence[1], cluster_idx))
    /\ cluster_idx' = cluster_idx + 1
    /\ sentences' = rest
    /\ log' = Append(log, Ev("punct", sentence, sentence))
    /\ UNCHANGED <<calls, pc, input, buffer, shaped, ret, MODEL, GENERATE_CACHE,
                   inits, generated>>
    /\ UNCHANGED decodeVars

\* Lines 128-131: the unit is in the cache.
UnitCacheHit ==
    /\ pc = "loop"
    /\ sentences # <<>>
    /\ ~IsLonePunct(sentence)
    /\ ShouldTranslate(sentence, rest)
    /\ contains_key(cache, sentence)
    /\ EmitUnit(cache_get(cache, sentence))
    /\ log' = Append(log, Ev("hit", sentence, cache_get(cache, sentence)))
    /\ UNCHANGED <<calls, input, buffer, shaped, ret, MODEL, GENERATE_CACHE,
                   inits, generated>>
    /\ UNCHANGED decodeVars

\* Lines 133-141: model.decode returns Ok(output).
UnitGenerateOk(t) ==
    /\ pc = "loop"
    /\ sentences # <<>>
    /\ ~IsLonePunct(sentence)
    /\ ShouldTranslate(sentence, rest)
    /\ ~contains_key(cache, sentence)
    /\ MODEL # <<>>
    /\ GENERATE_CACHE' = <<CacheAfter(cache, sentence, DecodeOk(t))>>
    /\ EmitUnit(MatchOutput(sentence, DecodeOk(t)))
    /\ log' = Append(log, Ev("decode_ok", sentence, MatchOutput(sentence, DecodeOk(t))))
    /\ generated' = [x \in DOMAIN generated \cup {sentence} |->
                        IF x = sentence
                        THEN (IF x \in DOMAIN generated THEN Append(generated[x], t)
                              ELSE <<t>>)
                        ELSE generated[x]]
    /\ UNCHANGED <<calls, input, buffer, shaped, ret, MODEL, inits>>
    /\ UNCHANGED decodeVars

\* Lines 133-135, 142-145: model.decode returns Err(e).
UnitGenerateErr ==
    /\ pc = "loop"
    /\ sentences # <<>>
    /\ ~IsLonePunct(sentence)
    /\ ShouldTranslate(sentence, rest)
    /\ ~contains_key(cache, sentence)
    /\ MODEL # <<>>
    /\ GENERATE_CACHE' = <<CacheAfter(cache, sentence, DecodeErr)>>
    /\ EmitUnit(MatchOutput(sentence, DecodeErr))
    /\ log' = Append(log, Ev("decode_err", sentence, MatchOutput(sentence, DecodeErr)))
    /\ UNCHANGED <<calls, input, buffer, shaped, ret, MODEL, inits, generated>>
    /\ UNCHANGED decodeVars

\* Line 135: model.decode panics (an unwrap of a failed tensor operation
\* inside decode, t5-quantized lines 142 and 148); the wasm instance traps.
UnitGeneratePanic ==
    /\ pc = "loop"
    /\ sentences # <<>>
    /\ ~IsLonePunct(sentence)
    /\ ShouldTranslate(sentence, rest)
    /\ ~contains_key(cache, sentence)
    /\ MODEL # <<>>
    /\ pc' = "crashed"
    /\ log' = Append(log, Ev("decode_panic", sentence, <<>>))
    /\ UNCHANGED <<calls, input, buffer, shaped, ret, MODEL, GENERATE_CACHE,
                   sentences, glyphs, cluster_idx, inits, generated>>
    /\ UNCHANGED decodeVars

\* Lines 148-150: a last unit with no closing punctuation is kept as it is.
UnitVerbatim ==
    /\ pc = "loop"
    /\ sentences # <<>>
    /\ ~IsLonePunct(sentence)
    /\ ~ShouldTranslate(sentence, rest)
    /\ EmitUnit(sentence)
    /\ log' = Append(log, Ev("verbatim", sentence, sentence))
    /\ UNCHANGED <<calls, input, buffer, shaped, ret, MODEL, GENERATE_CACHE,
                   inits, generated>>
    /\ UNCHANGED decodeVars

\* Line 166: the iterator is exhausted; buffer.glyphs = glyphs.
LoopExit ==
    /\ pc = "loop"
    /\ sentences = <<>>
    /\ buffer' = glyphs
    /\ shaped' = glyphs
    /\ glyphs' = <<>>
    /\ cluster_idx' = 0
    /\ pc' = "resolve"
    /\ log' = Append(log, Ev("collect", <<>>, <<>>))
    /\ UNCHANGED <<calls, input, ret, MODEL, GENERATE_CACHE, sentences,
                   inits, generated>>
    /\ UNCHANGED decodeVars

\* Lines 169-176: resolve every glyph, return 1.
FinalPass ==
    /\ pc = "resolve"
    /\ buffer' = FinalPassOf(buffer)
    /\ ret' = SuccessCode
    /\ pc' = "done"
    /\ log' = Append(log, Ev("resolve", <<>>, <<>>))
    /\ UNCHANGED <<calls, input, shaped, MODEL, GENERATE_CACHE, sentences, glyphs,
                   cluster_idx, inits, generated>>
    /\ UNCHANGED decodeVars

ShapeNext ==
    \/ \E cps \in HostBuffers : ShapeEnter(cps)
    \/ NumericFastPath
    \/ InitModelFails
    \/ BeginTranslation
    \/ UnitPunct
    \/ UnitCacheHit
    \/ \E t \in Generations : UnitGenerateOk(t)
    \/ UnitGenerateErr
    \/ UnitGeneratePanic
    \/ UnitVerbatim
    \/ LoopExit
    \/ FinalPass

-----------------------------------------------------------------------------
(* The generation engine: t5-quantized/src/lib.rs, decode                  *)

\* Longest argmax prefix a prompt fixes before its end-of-sequence token.
MaxScript == 2
\* Largest max_length a caller asks for, besides None and one above the cap.
MaxRequested == 2
\* Number of decode calls made on one model.
MaxDecodeCalls == 2

\* self.config.pad_token_id and self.config.eos_token_id (T5).
pad_token_id == 0
eos_token_id == 1

\* input.max_length.unwrap_or(512) and the upper end of the clamp (line 58).
DefaultMaxLength == 512
MaxLengthCap == 512

\* The tokenizer's vocabulary: <pad>, </s>, "▁a", "<0x0A>".
Vocab == [id \in 0..3 |->
            CASE id = 0 -> <<60, 112, 97, 100, 62>>
              [] id = 1 -> <<60, 47, 115, 62>>
              [] id = 2 -> <<9601, 97>>
              [] id = 3 -> <<60, 48, 120, 48, 65, 62>>]

\* self.tokenizer.id_to_token(id): Option<String>
id_to_token(id) == IF id \in DOMAIN Vocab THEN <<Vocab[id]>> ELSE <<>>

\* text.replace('▁', " ")
ReplaceMarker(text) == [i \in 1..Len(text) |-> IF text[i] = 9601 THEN 32 ELSE text[i]]

RECURSIVE ReplaceNewline(_)
\* text.replace("<0x0A>", "\n")
ReplaceNewline(text) ==
    IF text = <<>> THEN <<>>
    ELSE IF Len(text) >= 6 /\ SubSeq(text, 1, 6) = <<60, 48, 120, 48, 65, 62>>
         THEN <<10>> \o ReplaceNewline(SubSeq(text, 7, Len(text)))
         ELSE <<Head(text)>> \o ReplaceNewline(Tail(text))

\* Lines 158-161: the text a token adds to `decoded`.
TokenText(id) ==
    IF id_to_token(id) = <<>> THEN <<>>
    ELSE ReplaceNewline(ReplaceMarker(id_to_token(id)[1]))

\* A prompt, as the network sees it: the tokens its arg-max yields one after
\* the other (script), and the token it yields from then on (tail), which
\* is the end-of-sequence token or, for a network that never stops, token 2.
Prompts ==
    {[script |-> sc, tail |-> eos_token_id] : sc \in Strings({2, 3}, MaxScript)}
    \cup {[script |-> <<>>, tail |-> 2]}

\* The max_length values callers pass: None, small ones, and one the clamp cuts.
MaxLengths == {<<>>} \cup {<<k>> : k \in 0..MaxRequested} \cup {<<600>>}

\* ConditionalGenerationParams with temperature 0, top_p 1 and seed 0, for
\* which LogitsProcessor::sample is the arg-max; repeat_penalty in tenths.
DecodeParams ==
    [prompt : Prompts, repeat_penalty : {10, 11}, repeat_last_n : {1},
     max_length : MaxLengths]

\* usize::clamp(input.max_length.unwrap_or(512), 0, 512) (line 58)
unwrap_or(opt, d) == IF opt = <<>> THEN d ELSE opt[1]

\* Variant of clamp: the value is passed through.
NoClamp(x, lo, hi) == x

clamp(x, lo, hi) == IF x < lo THEN lo ELSE IF x > hi THEN hi ELSE x
EffectiveMaxLength(opt) == clamp(unwrap_or(opt, DefaultMaxLength), 0, MaxLengthCap)

\* Variant of LoopBreak: the bound is tested one token late.
LoopBreakLate(len, maxlen) == len > maxlen + 1

\* output_token_ids.len() > max_length (line 99)
LoopBreak(len, maxlen) == len > maxlen

\* The logits the network computes for a prompt once its key/value cache
\* holds the decoder tokens `kv`: the best token and the runner-up.
NetLogits(prompt, kv) ==
    LET pos  == Len(kv)
        best == IF pos <= Len(prompt.script) THEN prompt.script[pos] ELSE prompt.tail
    IN  [ok |-> TRUE, best |-> best, second |-> IF best = 2 THEN 3 ELSE 2]

ErrLogits == [ok |-> FALSE, best |-> 0, second |-> 0]

\* output_token_ids[start_at..] with start_at = len.saturating_sub(n) (line 140)
PenaltyWindow(ids, n) ==
    LET start_at == IF Len(ids) >= n THEN Len(ids) - n ELSE 0
    IN  {ids[i] : i \in (start_at + 1)..Len(ids)}

\* apply_repeat_penalty: a best token that is in the window loses to the
\* runner-up.
Penalised(lg, window) ==
    IF lg.best \in window THEN [lg EXCEPT !.best = lg.second, !.second = lg.best]
    ELSE lg

NoParams == [prompt |-> [script |-> <<>>, tail |-> eos_token_id],
             repeat_penalty |-> 10, repeat_last_n |-> 1, max_length |-> <<>>]
NoResult == [ok |-> TRUE, generation |-> <<>>, err |-> "none"]

DecodeInit ==
    /\ d_calls = 0
    /\ d_pc = "idle"
    /\ params = NoParams
    /\ kv_cache = <<>>
    /\ output_token_ids = <<>>
    /\ max_length = 0
    /\ index = 0
    /\ decoder_token_ids = <<>>
    /\ logits = ErrLogits
    /\ next_token_id = 0
    /\ decoded = <<>>
    /\ d_result = NoResult
    /\ iterations = 0
    /\ failure = "none"
    /\ stale_kv = FALSE

\* return Err(format!(...)) / the `?` operator
ReturnErr(step, msg) ==
    /\ d_pc' = "returned"
    /\ d_result' = [ok |-> FALSE, generation |-> <<>>, err |-> msg]
    /\ failure' = step

\* Ok(ConditionalGenerationOutput { generation: decoded }) (lines 163-167)
ReturnOk ==
    /\ d_pc' = "returned"
    /\ d_result' = [ok |-> TRUE, generation |-> decoded, err |-> "none"]
    /\ UNCHANGED failure

\* Result::unwrap on an Err
Panic ==
    /\ d_pc' = "panicked"
    /\ UNCHANGED <<d_result, failure>>

\* Variant of clear_kv_cache: the keys and values of the last call are kept.
KeepKvCache(kv) == kv

\* self.model.clear_kv_cache() (line 52)
clear_kv_cache(kv) == <<>>

\* Lines 50-69: a caller invokes decode.
DecodeEnter(p) ==
    /\ d_pc = "idle"
    /\ d_calls < MaxDecodeCalls
    /\ d_calls' = d_calls + 1
    /\ params' = p
    /\ kv_cache' = clear_kv_cache(kv_cache)
    /\ stale_kv' = (kv_cache # <<>>)
    /\ output_token_ids' = <<pad_token_id>>
    /\ max_length' = EffectiveMaxLength(p.max_length)
    /\ index' = 0
    /\ decoder_token_ids' = <<>>
    /\ logits' = ErrLogits
    /\ next_token_id' = 0
    /\ decoded' = <<>>
    /\ d_result' = NoResult
    /\ iterations' = 0
    /\ failure' = "none"
    /\ d_pc' = "tokenize"
    /\ UNCHANGED shapeVars

\* Lines 70-75: self.tokenizer.encode(prompt, true)
Tokenize(ok) ==
    /\ d_pc = "tokenize"
    /\ IF ok THEN d_pc' = "tensor" /\ UNCHANGED <<d_result, failure>>
       ELSE ReturnErr("tokenize", "tokenizer")
    /\ UNCHANGED <<d_calls, stale_kv, params, kv_cache, output_token_ids, max_length, index,
                   decoder_token_ids, logits, next_token_id, decoded, iterations>>
    /\ UNCHANGED shapeVars

\* Lines 77-82: Tensor::new(&tokens[..], device)
PromptTensor(ok) ==
    /\ d_pc = "tensor"
    /\ IF ok THEN d_pc' = "unsqueeze" /\ UNCHANGED <<d_result, failure>>
       ELSE ReturnErr("tensor", "Failed to create tensor")
    /\ UNCHANGED <<d_calls, stale_kv, params, kv_cache, output_token_ids, max_length, index,
                   decoder_token_ids, logits, next_token_id, decoded, iterations>>
    /\ UNCHANGED shapeVars

\* Lines 83-89: tsr.unsqueeze(0)
PromptUnsqueeze(ok) ==
    /\ d_pc = "unsqueeze"
    /\ IF ok THEN d_pc' = "encode" /\ UNCHANGED <<d_result, failure>>
       ELSE ReturnErr("unsqueeze", "Failed to unsqueeze tensor")
    /\ UNCHANGED <<d_calls, stale_kv, params, kv_cache, output_token_ids, max_length, index,
                   decoder_token_ids, logits, next_token_id, decoded, iterations>>
    /\ UNCHANGED shapeVars

\* Lines 90-97: self.model.encode(&input_token_ids)
Encode(ok) ==
    /\ d_pc = "encode"
    /\ IF ok THEN d_pc' = "loop" /\ UNCHANGED <<d_result, failure>>
       ELSE ReturnErr("encode", "Failed to encode tensor")
    /\ UNCHANGED <<d_calls, stale_kv, params, kv_cache, output_token_ids, max_length, index,
                   decoder_token_ids, logits, next_token_id, decoded, iterations>>
    /\ UNCHANGED shapeVars

\* Lines 98-101: the head of the loop.
LoopHead ==
    /\ d_pc = "loop"
    /\ iterations' = iterations + 1
    /\ IF LoopBreak(Len(output_token_ids), max_length)
       THEN ReturnOk
       ELSE d_pc' = "dec_tensor" /\ UNCHANGED <<d_result, failure>>
    /\ UNCHANGED <<d_calls, stale_kv, params, kv_cache, output_token_ids, max_length, index,
                   decoder_token_ids, logits, next_token_id, decoded>>
    /\ UNCHANGED shapeVars

\* Variant of DecoderInput: the whole output on every turn.
DecoderInputWhole(idx, ids) == ids

\* Lines 102-103 and 116-117: what the decoder tensor is built from.
DecoderInput(idx, ids) == IF idx = 0 THEN ids ELSE <<ids[Len(ids)]>>

\* Variant of IsEndOfSequence: the loop never stops on a token.
NeverEndOfSequence(tok) == FALSE

\* next_token_id as usize == self.config.eos_token_id (line 154)
IsEndOfSequence(tok) == tok = eos_token_id

\* Lines 102-108, 116-121: Tensor::new of the whole output on the first
\* turn, of the last token afterwards.
DecoderTensor(ok) ==
    /\ d_pc = "dec_tensor"
    /\ IF ok
       THEN /\ decoder_token_ids' = DecoderInput(index, output_token_ids)
            /\ d_pc' = "dec_unsqueeze"
            /\ UNCHANGED <<d_result, failure>>
       ELSE /\ ReturnErr("dec_tensor", "Failed to create tensor")
            /\ UNCHANGED decoder_token_ids
    /\ UNCHANGED <<d_calls, stale_kv, params, kv_cache, output_token_ids, max_length, index,
                   logits, next_token_id, decoded, iterations>>
    /\ UNCHANGED shapeVars

\* Lines 109-114, 122-127: .unsqueeze(0)
DecoderUnsqueeze(ok) ==
    /\ d_pc = "dec_unsqueeze"
    /\ IF ok THEN d_pc' = "model_decode" /\ UNCHANGED <<d_result, failure>>
       ELSE ReturnErr("dec_unsqueeze", "Failed to unsqueeze tensor")
    /\ UNCHANGED <<d_calls, stale_kv, params, kv_cache, output_token_ids, max_length, index,
                   decoder_token_ids, logits, next_token_id, decoded, iterations>>
    /\ UNCHANGED shapeVars

\* Lines 129-135: self.model.decode(&decoder_token_ids, &encoder_output)
ModelDecode(ok) ==
    /\ d_pc = "model_decode"
    /\ IF ok
       THEN /\ kv_cache' = kv_cache \o decoder_token_ids
            /\ d_pc' = "squeeze"
            /\ UNCHANGED <<d_result, failure>>
       ELSE /\ ReturnErr("model_decode", "Failed to decode tensor")
            /\ UNCHANGED kv_cache
    /\ UNCHANGED <<d_calls, stale_kv, params, output_token_ids, max_length, index,
                   decoder_token_ids, logits, next_token_id, decoded, iterations>>
    /\ UNCHANGED shapeVars

\* Line 136: .squeeze(0); its Result is kept in `logits`, not matched.
Squeeze(ok) ==
    /\ d_pc = "squeeze"
    /\ logits' = IF ok THEN NetLogits(params.prompt, kv_cache) ELSE ErrLogits
    /\ failure' = IF ok THEN failure ELSE "squeeze"
    /\ d_pc' = "penalty"
    /\ UNCHANGED <<d_calls, stale_kv, params, kv_cache, output_token_ids, max_length, index,
                   decoder_token_ids, next_token_id, decoded, d_result, iterations>>
    /\ UNCHANGED shapeVars

\* Lines 137-146: the repeat penalty; logits.unwrap() on line 142.
RepeatPenalty(ok) ==
    /\ d_pc = "penalty"
    /\ IF params.repeat_penalty = 10
       THEN d_pc' = "sample" /\ UNCHANGED <<logits, d_result, failure>>
       ELSE IF ~logits.ok
            THEN Panic /\ UNCHANGED logits
            ELSE /\ logits' =
                      IF ok
                      THEN Penalised(logits,
                               PenaltyWindow(output_token_ids, params.repeat_last_n))
                      ELSE ErrLogits
                 /\ failure' = IF ok THEN failure ELSE "repeat_penalty"
                 /\ d_pc' = "sample"
                 /\ UNCHANGED d_result
    /\ UNCHANGED <<d_calls, stale_kv, params, kv_cache, output_token_ids, max_length, index,
                   decoder_token_ids, next_token_id, decoded, iterations>>
    /\ UNCHANGED shapeVars

\* Lines 148-153: logits_processor.sample(&logits.unwrap())
Sample(ok) ==
    /\ d_pc = "sample"
    /\ IF ~logits.ok
       THEN Panic /\ UNCHANGED next_token_id
       ELSE IF ok
            THEN /\ next_token_id' = logits.best
                 /\ d_pc' = "append"
                 /\ UNCHANGED <<d_result, failure>>
            ELSE /\ ReturnErr("sample", "Failed to sample tensor")
                 /\ UNCHANGED next_token_id
    /\ UNCHANGED <<d_calls, stale_kv, params, kv_cache, output_token_ids, max_length, index,
                   decoder_token_ids, logits, decoded, iterations>>
    /\ UNCHANGED shapeVars

\* Lines 154-162: stop at the end-of-sequence token, else keep the token.
AppendToken ==
    /\ d_pc = "append"
    /\ IF IsEndOfSequence(next_token_id)
       THEN /\ ReturnOk
            /\ UNCHANGED <<output_token_ids, decoded, index>>
       ELSE /\ output_token_ids' = Append(output_token_ids, next_token_id)
            /\ decoded' = decoded \o TokenText(next_token_id)
            /\ index' = index + 1
            /\ d_pc' = "loop"
            /\ UNCHANGED <<d_result, failure>>
    /\ UNCHANGED <<d_calls, stale_kv, params, kv_cache, max_length, decoder_token_ids,
                   logits, next_token_id, iterations>>
    /\ UNCHANGED shapeVars

\* The caller takes the result; decode's locals are dropped, the model (and
\* its key/value cache) stays.
DecodeLeave ==
    /\ d_pc = "returned"
    /\ d_pc' = "idle"
    /\ params' = NoParams
    /\ output_token_ids' = <<>>
    /\ max_length' = 0
    /\ index' = 0
    /\ decoder_token_ids' = <<>>
    /\ logits' = ErrLogits
    /\ next_token_id' = 0
    /\ decoded' = <<>>
    /\ d_result' = NoResult
    /\ iterations' = 0
    /\ failure' = "none"
    /\ stale_kv' = FALSE
    /\ UNCHANGED <<d_calls, kv_cache>>
    /\ UNCHANGED shapeVars

DecodeNext ==
    \/ \E p \in DecodeParams : DecodeEnter(p)
    \/ \E ok \in BOOLEAN : Tokenize(ok)
    \/ \E ok \in BOOLEAN : PromptTensor(ok)
    \/ \E ok \in BOOLEAN : PromptUnsqueeze(ok)
    \/ \E ok \in BOOLEAN : Encode(ok)
    \/ LoopHead
    \/ \E ok \in BOOLEAN : DecoderTensor(ok)
    \/ \E ok \in BOOLEAN : DecoderUnsqueeze(ok)
    \/ \E ok \in BOOLEAN : ModelDecode(ok)
    \/ \E ok \in BOOLEAN : Squeeze(ok)
    \/ \E ok \in BOOLEAN : RepeatPenalty(ok)
    \/ \E ok \in BOOLEAN : Sample(ok)
    \/ AppendToken
    \/ DecodeLeave

-----------------------------------------------------------------------------
(* Specifications                                                          *)

vars == <<shapeVars, decodeVars>>

\* The shaper, with the engine seen through what decode hands back.
Init == ShapeInit /\ DecodeInit
Next == ShapeNext
Spec == Init /\ [][Next]_vars

\* The engine, called directly.
InitDecode == ShapeInit /\ DecodeInit
NextDecode == DecodeNext
SpecDecode == InitDecode /\ [][NextDecode]_vars

-----------------------------------------------------------------------------
(* Properties                                                              *)

Codepoints(gs) == [i \in 1..Len(gs) |-> gs[i].codepoint]
Clusters(gs) == [i \in 1..Len(gs) |-> gs[i].cluster]

UnitOps == {"punct", "hit", "decode_ok", "decode_err", "decode_panic", "verbatim"}
DecodeOps == {"decode_ok", "decode_err", "decode_panic"}
HasOp(l, ops) == \E k \in DOMAIN l : l[k].op \in ops

RECURSIVE UnitsOf(_)
\* The units the steps of a call have taken from the iterator, in order.
UnitsOf(l) ==
    IF l = <<>> THEN <<>>
    ELSE IF l[1].op \in UnitOps \ {"decode_panic"}
         THEN <<l[1].unit>> \o UnitsOf(Tail(l))
         ELSE UnitsOf(Tail(l))

RECURSIVE OutsOf(_)
\* The texts the steps of a call have produced for their units, joined.
OutsOf(l) ==
    IF l = <<>> THEN <<>>
    ELSE IF l[1].op \in UnitOps THEN l[1].out \o OutsOf(Tail(l))
         ELSE OutsOf(Tail(l))

numeric == is_number(str_buf)
InCall == pc \in {"entered", "loop", "resolve"}

\* C1: for a non-numeric buffer of length n >= 1, every glyph the
\* translation branch emits (lone punctuation marks after a translated unit
\* included) has its cluster in 0..n-1.
C1_ClustersInRange ==
    (~numeric /\ buf_len >= 1) =>
        /\ \A i \in DOMAIN glyphs : glyphs[i].cluster \in 0..(buf_len - 1)
        /\ \A i \in DOMAIN buffer : buffer[i].cluster \in 0..(buf_len - 1)

\* C2: for a buffer is_number accepts, shape emits one glyph per character
\* of the text, in order, with that character as its codepoint before
\* resolution and its position as its cluster; and no step of the call
\* loads the model, calls model.decode or touches the cache.
C2_NumericFastPath ==
    /\ [](numeric /\ pc \in {"resolve", "done"} =>
            /\ Len(shaped) = buf_len
            /\ Len(buffer) = buf_len
            /\ \A i \in 1..buf_len :
                  /\ shaped[i].codepoint = str_buf[i]
                  /\ shaped[i].cluster = i - 1
                  /\ buffer[i].cluster = i - 1
            /\ ~HasOp(log, DecodeOps \cup {"init_ok", "init_err", "hit"}))
    /\ [][(numeric /\ InCall) =>
            /\ MODEL' = MODEL
            /\ GENERATE_CACHE' = GENERATE_CACHE
            /\ inits' = inits
            /\ generated' = generated]_vars

C2_Witness ==
    /\ pc = "done"
    /\ numeric
    /\ ret = 1
    /\ Len(buffer) >= 3
    /\ \E i \in 1..buf_len : str_buf[i] = 46
    /\ MODEL # <<>>

\* C3: once model.decode has returned Ok for a sentence, every occurrence of
\* that sentence (in this call or a later one) yields the text generated
\* then, and model.decode is not invoked for it again: at most one
\* successful generation per sentence.
C3_GenerateOnce ==
    /\ \A x \in DOMAIN generated : Len(generated[x]) = 1
    /\ \A k \in DOMAIN log :
          (log[k].op \in UnitOps /\ log[k].unit \in DOMAIN generated) =>
              \/ /\ log[k].op \in {"hit", "decode_ok"}
                 /\ log[k].out = generated[log[k].unit][1]
              \/ /\ log[k].op = "decode_err"
                 /\ \E j \in DOMAIN log :
                       j > k /\ log[j].op = "decode_ok" /\ log[j].unit = log[k].unit
    /\ pc = "loop" => Codepoints(glyphs) = OutsOf(log)

C3_Witness ==
    /\ calls = 2
    /\ pc = "done"
    /\ HasOp(log, {"hit"})
    /\ ~HasOp(log, DecodeOps)
    /\ Len(buffer) > buf_len

\* C4: when model.decode returns Err for a unit, the characters emitted for
\* the unit are the unit's own text, the units behind it are still
\* processed, and shape returns 1.
C4_Fallback ==
    /\ \A k \in DOMAIN log : log[k].op = "decode_err" => log[k].out = log[k].unit
    /\ pc = "loop" =>
          /\ Codepoints(glyphs) = OutsOf(log)
          /\ UnitsOf(log) \o sentences = split_inclusive(str_buf)
    /\ (pc \in {"resolve", "done"} /\ HasOp(log, {"decode_err"})) =>
          /\ Codepoints(shaped) = OutsOf(log)
          /\ UnitsOf(log) = split_inclusive(str_buf)
    /\ (pc = "done" /\ HasOp(log, {"decode_err"})) => ret = 1

C4_Witness ==
    /\ pc = "done"
    /\ ret = 1
    /\ \E k \in DOMAIN log :
          /\ log[k].op = "decode_err"
          /\ \E j \in DOMAIN log : j > k /\ log[j].op = "decode_ok"

\* C5: a failed generation stores nothing: the cache holds exactly the
\* sentences model.decode returned Ok for, each with the text generated, so
\* a sentence whose generation failed is not served from the cache.
C5_FailureNotCached ==
    /\ GENERATE_CACHE # <<>> =>
          /\ DOMAIN cache = DOMAIN generated
          /\ \A x \in DOMAIN cache : cache[x] = generated[x][1]
    /\ GENERATE_CACHE = <<>> => DOMAIN generated = {}
    /\ \A k \in DOMAIN log :
          log[k].op = "hit" => log[k].unit \in DOMAIN generated
    /\ \A k \in DOMAIN log : \A j \in DOMAIN log :
          (k < j /\ log[k].op = "decode_err" /\ log[j].unit = log[k].unit
                 /\ ~(\E m \in DOMAIN log : m < j /\ log[m].op = "decode_ok"
                                             /\ log[m].unit = log[k].unit))
              => log[j].op \in DecodeOps

\* A sentence fails, and its next occurrence in the buffer is generated anew.
C5_Witness ==
    \E k \in DOMAIN log : \E j \in DOMAIN log :
        /\ k < j
        /\ log[k].op = "decode_err"
        /\ log[j].op = "decode_ok"
        /\ log[j].unit = log[k].unit

LoopBodyPcs == {"dec_tensor", "dec_unsqueeze", "model_decode", "squeeze",
                "penalty", "sample", "append"}

\* C6: whatever tokens the network yields, the loop head of decode is
\* evaluated at most max_length + 1 times, max_length being the clamped
\* bound; the body is entered at most max_length times.
C6_BoundedLoop ==
    d_pc # "idle" =>
        /\ iterations <= max_length + 1
        /\ d_pc \in LoopBodyPcs => iterations <= max_length
        /\ max_length = EffectiveMaxLength(params.max_length)

C6_Witness ==
    /\ d_pc = "returned"
    /\ params.prompt.tail # eos_token_id
    /\ params.max_length = <<600>>
    /\ max_length = 512
    /\ iterations = 513

\* C7: a call of decode in which a step failed ends by returning Err, never
\* in a panic.
C7_FailuresReturnErr ==
    (d_pc \in {"returned", "panicked"} /\ failure # "none") =>
        (d_pc = "returned" /\ ~d_result.ok)

Resolved ==
    /\ Len(buffer) = Len(shaped)
    /\ \A i \in DOMAIN buffer :
          /\ buffer[i].codepoint = get_glyph(shaped[i].codepoint)
          /\ buffer[i].x_advance = get_glyph_h_advance(buffer[i].codepoint)
          /\ buffer[i].cluster = shaped[i].cluster

\* C8 as stated: on every return of shape, the model-load failure included,
\* every glyph has been resolved to a glyph id and given that id's advance.
C8_ResolvedOnEveryReturn == pc = "done" => Resolved

\* C8 as amended: on every return of shape with code 1 (numeric, translated,
\* passed through) every glyph has been resolved to a glyph id and given
\* that id's advance; the return with code 0 comes before the final pass and
\* leaves the glyphs as the host supplied them.
C8_ResolvedOnSuccess ==
    /\ (pc = "done" /\ ret = 1) => Resolved
    /\ (pc = "done" /\ ret = 0) => buffer = HostGlyphs(input)

C8_Witness ==
    /\ pc = "done"
    /\ ret = 1
    /\ ~numeric
    /\ HasOp(log, {"decode_ok"})
    /\ HasOp(log, {"verbatim"})
    /\ Len(buffer) > 0

\* C9: shape returns 0 exactly when the buffer is not numeric and the model,
\* absent at entry, failed to load in this call; otherwise it returns 1.  On
\* the 0 return nothing was translated and the glyphs are the host's.
C9_ReturnCode ==
    pc = "done" =>
        /\ ret \in {0, 1}
        /\ ret = 0 <=> (~numeric /\ MODEL = <<>>)
        /\ ret = 0 <=> HasOp(log, {"init_err"})
        /\ ret = 0 =>
              /\ buffer = HostGlyphs(input)
              /\ ~HasOp(log, UnitOps)
              /\ Len(log) = 2

C9_Witness ==
    /\ pc = "done"
    /\ ret = 0
    /\ calls = 2
    /\ inits = 2
    /\ Len(buffer) = MaxLen

\* C10: init_model is invoked only by a non-numeric call that finds no
\* model, and by every such call; a loaded session is never replaced; the
\* cache, once created, is never replaced by an empty table and keeps its
\* entries.
C10_LazyInitOnce ==
    /\ [](inits = 0 => (MODEL = <<>> /\ GENERATE_CACHE = <<>>))
    /\ [][/\ inits' # inits =>
               (inits' = inits + 1 /\ pc = "entered" /\ ~numeric /\ MODEL = <<>>)
          /\ (pc = "entered" /\ ~numeric /\ MODEL = <<>>) => inits' = inits + 1
          /\ MODEL # <<>> => MODEL' = MODEL
          /\ GENERATE_CACHE # <<>> =>
               /\ GENERATE_CACHE' # <<>>
               /\ \A x \in DOMAIN GENERATE_CACHE[1] :
                     /\ x \in DOMAIN GENERATE_CACHE'[1]
                     /\ GENERATE_CACHE'[1][x] = GENERATE_CACHE[1][x]]_vars

C10_Witness ==
    /\ calls = 2
    /\ pc = "done"
    /\ inits = 1
    /\ HasOp(log, {"model_ready"})
    /\ HasOp(log, {"hit"})

\* The token a model whose key/value cache was reset at entry samples once
\* the call has produced `ids`: the cache then holds `ids` and nothing else.
FreshNext(p, ids) ==
    LET lg == NetLogits(p.prompt, ids)
    IN  IF p.repeat_penalty = 10 THEN lg.best
        ELSE Penalised(lg, PenaltyWindow(ids, p.repeat_last_n)).best

RECURSIVE GenerateFrom(_, _)
GenerateFrom(p, ids) ==
    IF Len(ids) > EffectiveMaxLength(p.max_length) THEN ids
    ELSE IF FreshNext(p, ids) = eos_token_id THEN ids
         ELSE GenerateFrom(p, Append(ids, FreshNext(p, ids)))

\* The output token sequence as a function of the parameters alone.
Generate(p) == GenerateFrom(p, <<pad_token_id>>)

RECURSIVE TextFrom(_, _)
\* The text of the tokens ids[k..].
TextFrom(ids, k) ==
    IF k > Len(ids) THEN <<>> ELSE TokenText(ids[k]) \o TextFrom(ids, k + 1)

InDecode == d_pc \notin {"idle", "panicked"}

\* C11: the tokens and the text decode returns are a function of its
\* parameters alone, whatever calls ran before (with other prompts, ended
\* by Ok, by Err in the middle of the loop, or not at all): every sampled
\* token is the one a freshly reset model yields for the tokens of this
\* call, because the key/value cache holds nothing of an earlier call.
C11_Deterministic ==
    /\ (d_pc = "returned" /\ d_result.ok) =>
          /\ output_token_ids = Generate(params)
          /\ d_result.generation = TextFrom(Generate(params), 2)
    /\ d_pc = "append" => next_token_id = FreshNext(params, output_token_ids)
    /\ (InDecode /\ iterations = 0) => kv_cache = <<>>
    /\ d_pc \in {"squeeze", "penalty", "sample", "append"} =>
          kv_cache = output_token_ids

\* A second call returns a text after a first call left keys and values
\* behind in the model.
C11_Witness ==
    /\ d_calls = 2
    /\ stale_kv
    /\ d_pc = "returned"
    /\ d_result.ok
    /\ Len(output_token_ids) = 3
    /\ params.repeat_penalty = 11
    /\ d_result.generation # <<>>

IsUnitEv(e) == e.op \in UnitOps
\* The steps of the current call that took a unit, in order.
UnitEvents == SelectSeq(log, IsUnitEv)
LookupOps == {"hit", "decode_ok", "decode_err", "decode_panic"}
Last(s) == s[Len(s)]
IsMark(c) == c \in {46, 33, 63}
LoneMark(u) == Len(u) = 1 /\ IsMark(u[1])

\* C12: the j-th unit of the text, unless it is a lone punctuation mark,
\* goes to the cache or the engine exactly when it is not the last unit or
\* its last character is '.', '!' or '?'; a last unit with no closing mark
\* is emitted as it is, and its step leaves the cache and the engine alone.
C12_TranslateCondition ==
    /\ [](pc \in {"loop", "resolve", "done", "crashed"} =>
            LET units == split_inclusive(str_buf)
            IN  /\ Len(UnitEvents) <= Len(units)
                /\ \A j \in DOMAIN UnitEvents :
                      LET e == UnitEvents[j]
                          translate == j < Len(units) \/ IsMark(Last(units[j]))
                      IN  /\ e.unit = units[j]
                          /\ ~LoneMark(units[j]) =>
                                /\ (e.op \in LookupOps) <=> translate
                                /\ (e.op = "verbatim") <=> ~translate
                                /\ e.op = "verbatim" => e.out = e.unit)
    /\ [][(/\ pc = "loop"
           /\ Len(sentences) = 1
           /\ ~LoneMark(sentences[1])
           /\ ~IsMark(Last(sentences[1]))) =>
              /\ GENERATE_CACHE' = GENERATE_CACHE
              /\ generated' = generated
              /\ Last(log').op = "verbatim"
              /\ Codepoints(glyphs') = Codepoints(glyphs) \o sentences[1]]_vars

\* "a.a" after an earlier call generated "a.": the first unit is served
\* from the cache, the trailing "a" is kept as it is.
C12_Witness ==
    /\ pc = "done"
    /\ calls = 2
    /\ Len(UnitEvents) = 2
    /\ UnitEvents[1].op = "hit"
    /\ UnitEvents[2].op = "verbatim"
    /\ Len(UnitEvents[2].unit) = 1

\* C13: the clusters of the glyphs the translation branch produces never
\* decrease in output order.
C13_ClustersNonDecreasing ==
    ~numeric =>
        /\ \A i \in DOMAIN glyphs : \A j \in DOMAIN glyphs :
              i < j => glyphs[i].cluster <= glyphs[j].cluster
        /\ \A i \in DOMAIN buffer : \A j \in DOMAIN buffer :
              i < j => buffer[i].cluster <= buffer[j].cluster

\* C14: a unit that is one character, '.', '!' or '?', becomes one glyph
\* with that character as its codepoint, moves the cluster counter on by
\* one, and its step leaves the cache and the engine alone.
C14_LonePunctuation ==
    /\ [](\A k \in DOMAIN log :
             LoneMark(log[k].unit) => (log[k].op = "punct" /\ log[k].out = log[k].unit))
    /\ [][(pc = "loop" /\ sentences # <<>> /\ LoneMark(sentences[1])) =>
              /\ Len(glyphs') = Len(glyphs) + 1
              /\ SubSeq(glyphs', 1, Len(glyphs)) = glyphs
              /\ Last(glyphs').codepoint = sentences[1][1]
              /\ cluster_idx' = cluster_idx + 1
              /\ GENERATE_CACHE' = GENERATE_CACHE
              /\ generated' = generated
              /\ MODEL' = MODEL
              /\ Last(log').op = "punct"
              /\ sentences' = Tail(sentences)]_vars

\* "a..": the second '.' is a unit of its own behind a generated "a.".
C14_Witness ==
    /\ pc = "done"
    /\ ret = 1
    /\ Len(UnitEvents) = 2
    /\ UnitEvents[1].op = "decode_ok"
    /\ UnitEvents[2].op = "punct"
    /\ Last(shaped).codepoint = 46
    /\ Len(shaped) = Len(UnitEvents[1].out) + 1

\* C15: a sampled end-of-sequence token ends the loop at once and is
\* neither pushed nor turned into text; any other sampled token is pushed
\* once, behind the tokens sampled before it, and its text is added; so the
\* end-of-sequence token is never among the output tokens and the text
\* returned is the text of the tokens sampled before it.
C15_StopAtEos ==
    /\ [](/\ InDecode =>
               /\ output_token_ids[1] = pad_token_id
               /\ \A i \in 2..Len(output_token_ids) :
                     output_token_ids[i] # eos_token_id
          /\ (d_pc = "returned" /\ d_result.ok) =>
               d_result.generation = TextFrom(output_token_ids, 2))
    /\ [][d_pc = "append" =>
             IF next_token_id = eos_token_id
             THEN /\ d_pc' = "returned"
                  /\ d_result'.ok
                  /\ d_result'.generation = decoded
                  /\ output_token_ids' = output_token_ids
                  /\ decoded' = decoded
             ELSE /\ d_pc' = "loop"
                  /\ output_token_ids' = Append(output_token_ids, next_token_id)
                  /\ decoded' = decoded \o TokenText(next_token_id)]_vars

\* Two tokens, the second a newline byte token, then end-of-sequence well
\* before the bound.
C15_Witness ==
    /\ d_pc = "returned"
    /\ d_result.ok
    /\ next_token_id = eos_token_id
    /\ output_token_ids = <<pad_token_id, 2, 3>>
    /\ d_result.generation = <<32, 97, 10>>
    /\ Len(output_token_ids) <= max_length

\* The bound a request asks for: its max_length, 512 if it has none, and
\* never more than 512.
RequestedBound(opt) ==
    LET asked == IF opt = <<>> THEN DefaultMaxLength ELSE opt[1]
    IN  IF asked > MaxLengthCap THEN MaxLengthCap ELSE asked

\* C16: the bound in force is the requested max_length cut to [0, 512]
\* (512 if absent); decode pushes at most that many tokens behind the pad
\* token, whatever the network yields; with a bound of 0 the decoder is
\* never run and the text returned is empty.
C16_EffectiveBound ==
    InDecode =>
        /\ max_length = RequestedBound(params.max_length)
        /\ max_length \in 0..512
        /\ Len(output_token_ids) - 1 <= max_length
        /\ max_length = 0 =>
              /\ d_pc \notin LoopBodyPcs
              /\ kv_cache = <<>>
              /\ output_token_ids = <<pad_token_id>>
              /\ (d_pc = "returned" /\ d_result.ok) => d_result.generation = <<>>

\* max_length Some(0) with a prompt the network would answer.
C16_Witness ==
    /\ d_pc = "returned"
    /\ d_result.ok
    /\ params.max_length = <<0>>
    /\ params.prompt.script # <<>>
    /\ iterations = 1
    /\ d_result.generation = <<>>

\* C17: the decoder is fed the whole output sequence on the first turn of
\* the loop, which is then the pad token alone, and on every later turn the
\* one token pushed last.
C17_DecoderInput ==
    d_pc \in LoopBodyPcs \ {"dec_tensor"} =>
        /\ iterations = 1 =>
              /\ decoder_token_ids = output_token_ids
              /\ decoder_token_ids = <<pad_token_id>>
        /\ iterations > 1 =>
              /\ Len(decoder_token_ids) = 1
              /\ decoder_token_ids[1] = output_token_ids[Len(output_token_ids)]
              /\ Len(output_token_ids) = iterations

C17_Witness ==
    /\ d_pc = "model_decode"
    /\ iterations = 3
    /\ output_token_ids = <<pad_token_id, 2, 3>>
    /\ decoder_token_ids = <<3>>

RECURSIVE Flatten(_)
Flatten(ss) == IF ss = <<>> THEN <<>> ELSE Head(ss) \o Flatten(Tail(ss))

\* Every unit the call has taken so far came out as its own text.
AllUnchanged == \A j \in DOMAIN UnitEvents : UnitEvents[j].out = UnitEvents[j].unit

\* The first k characters of the text, one glyph each, clusters 0..k-1.
TextGlyphs(k) == [i \in 1..k |-> Glyph(str_buf[i], i - 1)]

\* C18: the units, joined in order, are the text; and when every unit came
\* out as its own text (a last fragment kept as it is, a lone punctuation
\* mark, a failed generation), the translation branch emits the characters
\* of the text in their order with clusters 0, 1, ..., n-1.
C18_NothingLost ==
    /\ pc = "loop" => Flatten(UnitsOf(log) \o sentences) = str_buf
    /\ (pc = "loop" /\ AllUnchanged) =>
          /\ glyphs = TextGlyphs(Len(glyphs))
          /\ cluster_idx = Len(glyphs)
          /\ Len(glyphs) = Len(Flatten(UnitsOf(log)))
    /\ (pc \in {"resolve", "done"} /\ HasOp(log, {"collect"}) /\ AllUnchanged) =>
          /\ Flatten(UnitsOf(log)) = str_buf
          /\ shaped = TextGlyphs(buf_len)
          /\ Clusters(buffer) = [i \in 1..buf_len |-> i - 1]

\* "a..a" with the generation of "a." failing: a fallback, a lone mark and
\* a trailing fragment.
C18_Witness ==
    /\ pc = "done"
    /\ ret = 1
    /\ AllUnchanged
    /\ Len(UnitEvents) = 3
    /\ UnitEvents[1].op = "decode_err"
    /\ UnitEvents[2].op = "punct"
    /\ UnitEvents[3].op = "verbatim"
    /\ buf_len = 4
    /\ Codepoints(shaped) = str_buf

CacheKeys == IF GENERATE_CACHE = <<>> THEN {} ELSE DOMAIN GENERATE_CACHE[1]

\* A text of two or more characters with one punctuation mark, at its end.
IsClosedUnit(x) ==
    /\ Len(x) >= 2
    /\ IsMark(Last(x))
    /\ \A i \in 1..(Len(x) - 1) : ~IsMark(x[i])

\* C19: over any run of shape calls the cache only grows: no entry is
\* removed, no value is replaced; a step adds at most the unit in hand, and
\* only when model.decode returned Ok for it, with the text returned; every
\* key is such a unit: two or more characters, closed by '.', '!' or '?'.
C19_CacheGrowsOnly ==
    /\ [](\A x \in CacheKeys :
             /\ IsClosedUnit(x)
             /\ x \in DOMAIN generated
             /\ GENERATE_CACHE[1][x] = generated[x][1])
    /\ [][/\ GENERATE_CACHE # <<>> => GENERATE_CACHE' # <<>>
          /\ GENERATE_CACHE' # <<>> =>
               /\ \A x \in CacheKeys :
                     /\ x \in DOMAIN GENERATE_CACHE'[1]
                     /\ GENERATE_CACHE'[1][x] = GENERATE_CACHE[1][x]
               /\ \A x \in DOMAIN GENERATE_CACHE'[1] \ CacheKeys :
                     /\ pc = "loop"
                     /\ sentences # <<>>
                     /\ x = sentences[1]
                     /\ Last(log').op = "decode_ok"
                     /\ Last(log').unit = x
                     /\ GENERATE_CACHE'[1][x] = Last(log').out]_vars

\* A second call adds a second sentence to the one the first call stored.
C19_Witness ==
    /\ calls = 2
    /\ pc = "done"
    /\ Cardinality(CacheKeys) = 2
    /\ Cardinality({Len(x) : x \in CacheKeys}) = 2
    /\ Len(UnitEvents) = 1
    /\ UnitEvents[1].op = "decode_ok"

====
